---- MODULE Spec2Model ----
(***************************************************************************)
(* Model of parse_articles.py: filename normalisation, content             *)
(* segmentation and the per-slug aggregation of main().                    *)
(*                                                                         *)
(* A Python str is a sequence of characters; a character is a one-letter   *)
(* TLA+ string.  A code point that has no TLA+ string is named by its      *)
(* code point: "U+0130" (LATIN CAPITAL LETTER I WITH DOT ABOVE), "U+0307"  *)
(* (COMBINING DOT ABOVE), "U+00A0" (NO-BREAK SPACE) and the other          *)
(* whitespace of SpaceSet.  Python indices are 0-based; SubSeq is 1-based. *)
(* The characters of the model are the ASCII characters and these named    *)
(* code points: \d, [a-zA-Z0-9] and str.lower() are modelled on them only. *)
(***************************************************************************)
EXTENDS Integers, Sequences, FiniteSets, TLC

VARIABLES listing, pos, articles, js_data, article_id, pc, arg, ret

vars == <<listing, pos, articles, js_data, article_id, pc, arg, ret>>

(***************************************************************************)
(* Bounds of the model.                                                    *)
(***************************************************************************)
MaxFiles == 3
MaxLen == 4
MaxSegs == 4

(***************************************************************************)
(* Python str built-ins used by the program.                               *)
(***************************************************************************)
Min(S) == CHOOSE x \in S : \A y \in S : x <= y

Max(S) == CHOOSE x \in S : \A y \in S : x >= y

UpperLetters == << "A","B","C","D","E","F","G","H","I","J","K","L","M",
                   "N","O","P","Q","R","S","T","U","V","W","X","Y","Z" >>

LowerLetters == << "a","b","c","d","e","f","g","h","i","j","k","l","m",
                   "n","o","p","q","r","s","t","u","v","w","x","y","z" >>

Digits == << "0","1","2","3","4","5","6","7","8","9" >>

UpperSet == { UpperLetters[i] : i \in 1..26 }

LowerSet == { LowerLetters[i] : i \in 1..26 }

DigitSet == { Digits[i] : i \in 1..10 }

\* str.isspace, which str.strip() and the regex class \s of a str pattern
\* follow: the 29 whitespace code points of Python
SpaceSet ==
    { "\t", "\n", "U+000B", "\f", "\r", "U+001C", "U+001D", "U+001E", "U+001F",
      " ", "U+0085", "U+00A0", "U+1680", "U+2000", "U+2001", "U+2002",
      "U+2003", "U+2004", "U+2005", "U+2006", "U+2007", "U+2008", "U+2009",
      "U+200A", "U+2028", "U+2029", "U+202F", "U+205F", "U+3000" }

IsUpper(c) == c \in UpperSet

IsSpace(c) == c \in SpaceSet

\* str.lower() of one character: a sequence, because U+0130 lowers to the
\* two code points "i" U+0307
LowerChar(c) ==
    IF IsUpper(c)
    THEN << LowerLetters[CHOOSE i \in 1..26 : UpperLetters[i] = c] >>
    ELSE IF c = "U+0130" THEN << "i", "U+0307" >> ELSE << c >>

\* s.lower(), computed by halves
RECURSIVE Lower(_)
Lower(s) ==
    IF Len(s) = 0 THEN << >>
    ELSE IF Len(s) = 1 THEN LowerChar(s[1])
    ELSE LET h == Len(s) \div 2
         IN  Lower(SubSeq(s, 1, h)) \o Lower(SubSeq(s, h + 1, Len(s)))

\* s[a:b] with 0 <= a, b
Slice(s, a, b) == SubSeq(s, a + 1, IF b > Len(s) THEN Len(s) ELSE b)

\* s[a:]
SliceFrom(s, a) == SubSeq(s, a + 1, Len(s))

\* s.find(p): the lowest 0-based index where p occurs in s, or -1
Find(s, p) ==
    LET hits == { i \in 0..(Len(s) - Len(p)) :
                    \A j \in 1..Len(p) : s[i + j] = p[j] }
    IN  IF hits = {} THEN -1 ELSE Min(hits)

\* p in s
Contains(s, p) == Find(s, p) # -1

\* s.strip()
Strip(s) ==
    LET keep == { i \in 1..Len(s) : ~IsSpace(s[i]) }
    IN  IF keep = {} THEN << >> ELSE SubSeq(s, Min(keep), Max(keep))

\* s.split('\n'): always at least one line
RECURSIVE SplitLines(_)
SplitLines(s) ==
    LET i == Find(s, << "\n" >>)
    IN  IF i = -1 THEN << s >>
        ELSE << Slice(s, 0, i) >> \o SplitLines(SliceFrom(s, i + 1))

\* '\n'.join(lines)
RECURSIVE JoinLines(_)
JoinLines(lines) ==
    IF lines = << >> THEN << >>
    ELSE IF Len(lines) = 1 THEN lines[1]
    ELSE lines[1] \o << "\n" >> \o JoinLines(Tail(lines))

\* s.replace(p, '') for a non-empty p
RECURSIVE Remove(_, _)
Remove(s, p) ==
    LET i == Find(s, p)
    IN  IF i = -1 THEN s
        ELSE Slice(s, 0, i) \o Remove(SliceFrom(s, i + Len(p)), p)

\* s.endswith(p)
EndsWith(s, p) ==
    Len(s) >= Len(p) /\ SubSeq(s, Len(s) - Len(p) + 1, Len(s)) = p

\* the k-th smallest element of a set of integers
Nth(S, k) == CHOOSE i \in S : Cardinality({ j \in S : j <= i }) = k

\* the characters of s that are in the set K, in order
Filter(s, K) ==
    LET keep == { i \in 1..Len(s) : s[i] \in K }
    IN  [ k \in 1..Cardinality(keep) |-> s[Nth(keep, k)] ]

\* the length of the longest run of characters of the set K that starts at
\* 0-based index a of s (a greedy K* of a regular expression)
RECURSIVE Span(_, _, _)
Span(s, a, K) ==
    IF a < Len(s) /\ s[a + 1] \in K THEN 1 + Span(s, a + 1, K) ELSE 0

\* int(digits)
RECURSIVE ToInt(_)
ToInt(ds) ==
    IF ds = << >> THEN 0
    ELSE 10 * ToInt(SubSeq(ds, 1, Len(ds) - 1))
         + (CHOOSE i \in 1..10 : Digits[i] = ds[Len(ds)]) - 1

\* str(n) for n >= 0
RECURSIVE ToDigits(_)
ToDigits(n) ==
    IF n < 10 THEN << Digits[n + 1] >>
    ELSE ToDigits(n \div 10) \o << Digits[(n % 10) + 1] >>

\* f'{n:03d}'
Format03d(n) ==
    LET ds == ToDigits(n)
    IN  IF Len(ds) >= 3 THEN ds
        ELSE [i \in 1..(3 - Len(ds)) |-> "0"] \o ds

(***************************************************************************)
(* parse_filename and the level pattern of main().                         *)
(***************************************************************************)
DocxExt ==
    << ".", "d", "o", "c", "x" >>

LvlToken ==
    << "L", "v", "l", " " >>

SuffixToken ==
    << "B", "r", "e", "a", "k", "i", "n", "g", " ", "N", "e", "w", "s",
       " ", "E", "n", "g", "l", "i", "s", "h" >>

\* mutant: the class [^a-zA-Z0-9\s], which removes hyphens too
SlugChars_no_hyphen == UpperSet \cup LowerSet \cup DigitSet \cup SpaceSet

\* the characters the class [^a-zA-Z0-9\s-] leaves in place
SlugChars == UpperSet \cup LowerSet \cup DigitSet \cup SpaceSet \cup {"-"}

\* re.sub(r'^Lvl \d+\s*', '', s)
StripLevelPrefix(s) ==
    LET d == Span(s, Len(LvlToken), DigitSet)
    IN  IF Slice(s, 0, Len(LvlToken)) = LvlToken /\ d >= 1
        THEN SliceFrom(s, Len(LvlToken) + d
                          + Span(s, Len(LvlToken) + d, SpaceSet))
        ELSE s

\* where a match of \s*_\s*Breaking News English.*$ that starts at index i
\* ends, or -1 when there is none: "." matches no newline and "$" matches at
\* the end of the string or before a newline that ends it
SuffixMatchEnd(s, i) ==
    LET k == i + Span(s, i, SpaceSet)
        m == k + 1 + Span(s, k + 1, SpaceSet)
        e == m + Len(SuffixToken)
        nl == Find(SliceFrom(s, e), << "\n" >>)
    IN  IF k < Len(s) /\ s[k + 1] = "_" /\ Slice(s, m, e) = SuffixToken
           /\ e <= Len(s)
        THEN IF nl = -1 THEN Len(s)
             ELSE IF e + nl = Len(s) - 1 THEN Len(s) - 1 ELSE -1
        ELSE -1

\* re.sub(r'\s*_\s*Breaking News English.*$', '', s): the leftmost match is
\* removed, and it leaves at most a final newline, which holds no other match
StripSuffix(s) ==
    LET starts == { i \in 0..Len(s) : SuffixMatchEnd(s, i) # -1 }
    IN  IF starts = {} THEN s
        ELSE Slice(s, 0, Min(starts)) \o SliceFrom(s, SuffixMatchEnd(s, Min(starts)))

\* re.sub(r'\s+', '-', s): each maximal run of whitespace becomes one "-"
CollapseSpaces(s) ==
    LET keep == { i \in 1..Len(s) :
                    s[i] \notin SpaceSet \/ i = 1 \/ s[i - 1] \notin SpaceSet }
    IN  [ k \in 1..Cardinality(keep) |->
            IF s[Nth(keep, k)] \in SpaceSet THEN "-" ELSE s[Nth(keep, k)] ]

\* lines 28-29 of parse_filename: the slug of a cleaned name
Slugify(clean_name) ==
    CollapseSpaces(Strip(Lower(Filter(clean_name, SlugChars))))

parse_filename(filename) ==
    Slugify(StripSuffix(StripLevelPrefix(Remove(filename, DocxExt))))

\* re.search(r'^Lvl (\d+)', filename) matches
level_match(filename) ==
    /\ Slice(filename, 0, Len(LvlToken)) = LvlToken
    /\ Span(filename, Len(LvlToken), DigitSet) >= 1

\* int(level_match.group(1))
LevelOf(filename) ==
    ToInt(Slice(filename, Len(LvlToken),
                Len(LvlToken) + Span(filename, Len(LvlToken), DigitSet)))

(***************************************************************************)
(* extract_text_from_docx.  A document is [ok, paragraphs]: ok is FALSE    *)
(* when Document(file_path) raises, and paragraphs holds paragraph.text of *)
(* each paragraph.                                                         *)
(***************************************************************************)
RECURSIVE StrippedParagraphs(_)
StrippedParagraphs(ps) ==
    IF ps = << >> THEN << >>
    ELSE (IF Strip(Head(ps)) # << >> THEN << Strip(Head(ps)) >> ELSE << >>)
         \o StrippedParagraphs(Tail(ps))

\* mutant: the paragraphs joined as they are, blank ones included
extract_text_unfiltered(doc) ==
    IF doc.ok THEN JoinLines(doc.paragraphs) ELSE << >>

extract_text_from_docx(doc) ==
    IF doc.ok THEN JoinLines(StrippedParagraphs(doc.paragraphs)) ELSE << >>

(***************************************************************************)
(* The content segmenter.  parse_level_content returns the tuple           *)
(* <<article_text, instruction, questions, writing_prompt>>.               *)
(***************************************************************************)
HomeworkToken ==
    << "H", "o", "m", "e", "w", "o", "r", "k", ":" >>

writing_prompt_markers ==
    <<
      <<"F","r","e","e"," ","W","r","i","t","i","n","g">>,
      <<"A","c","a","d","e","m","i","c"," ","W","r","i","t","i","n","g">>,
      <<"W","r","i","t","i","n","g"," ","P","r","a","c","t","i","c","e">>,
      <<"w","r","i","t","i","n","g"," ","p","r","a","c","t","i","c","e">>
    >>

instruction_markers ==
    <<
      <<"W","r","i","t","e"," ","a"," ","f","u","l","l"," ","s","e","n","t","e","n","c","e">>,
      <<"W","r","i","t","e"," ","a"," ","f","u","l","l","-","s","e","n","t","e","n","c","e">>,
      <<"A","n","s","w","e","r"," ","e","a","c","h"," ","q","u","e","s","t","i","o","n">>,
      <<"W","r","i","t","e"," ","f","u","l","l"," ","s","e","n","t","e","n","c","e","s">>,
      <<"I","n"," ","y","o","u","r"," ","V","o","c","a","b"," ","N","o","t","e","b","o","o","k">>
    >>

\* mutant: `marker.lower() in line`, the line not lowered
FirstLineWith_case_sensitive(lines, marker) ==
    LET hits == { i \in 1..Len(lines) : Contains(lines[i], Lower(marker)) }
    IN  IF hits = {} THEN 0 ELSE Min(hits)

\* the index of the first line that contains the marker, or 0 (lines 100-105)
FirstLineWith(lines, marker) ==
    LET hits == { i \in 1..Len(lines) : Contains(Lower(lines[i]), Lower(marker)) }
    IN  IF hits = {} THEN 0 ELSE Min(hits)

\* the loop of lines 94-108, from marker number m on
RECURSIVE ExtractFrom(_, _)
ExtractFrom(homework_content, m) ==
    IF m > Len(instruction_markers) THEN << << >>, homework_content >>
    ELSE LET marker == instruction_markers[m]
             index == Find(Lower(homework_content), Lower(marker))
             lines == SplitLines(homework_content)
             i == FirstLineWith(lines, marker)
         IN  IF index # -1 /\ i # 0
             THEN << Strip(lines[i]),
                     Strip(JoinLines(SubSeq(lines, i + 1, Len(lines)))) >>
             ELSE ExtractFrom(homework_content, m + 1)

extract_instruction_and_questions(homework_content) ==
    ExtractFrom(homework_content, 1)

parse_level_1_and_3_content(article_text, after_homework) ==
    LET iq == extract_instruction_and_questions(after_homework)
    IN  << article_text, iq[1], iq[2], << >> >>

\* the loop of lines 61-65: the index found for the first marker of the list
\* that occurs in the lowered text, or -1
RECURSIVE WritingIndexFrom(_, _)
WritingIndexFrom(after_homework, m) ==
    IF m > Len(writing_prompt_markers) THEN -1
    ELSE LET index == Find(Lower(after_homework),
                           Lower(writing_prompt_markers[m]))
         IN  IF index # -1 THEN index
             ELSE WritingIndexFrom(after_homework, m + 1)

parse_level_6_content(article_text, after_homework) ==
    LET writing_index == WritingIndexFrom(after_homework, 1)
        before_writing == Strip(Slice(after_homework, 0, writing_index))
        writing_prompt == Strip(SliceFrom(after_homework, writing_index))
        iq == extract_instruction_and_questions(
                  IF writing_index # -1 THEN before_writing ELSE after_homework)
    IN  IF writing_index # -1
        THEN << article_text, iq[1], iq[2], writing_prompt >>
        ELSE << article_text, iq[1], iq[2], << >> >>

parse_level_content(full_text, level) ==
    LET homework_index == Find(full_text, HomeworkToken)
        article_text == Strip(Slice(full_text, 0, homework_index))
        after_homework ==
            Strip(SliceFrom(full_text, homework_index + Len(HomeworkToken)))
    IN  IF full_text = << >> THEN << << >>, << >>, << >>, << >> >>
        ELSE IF homework_index = -1
             THEN << Strip(full_text), << >>, << >>, << >> >>
        ELSE IF level = 6
             THEN parse_level_6_content(article_text, after_homework)
        ELSE parse_level_1_and_3_content(article_text, after_homework)

(***************************************************************************)
(* main(): the scan of the directory.  `articles` is the defaultdict, an   *)
(* insertion-ordered mapping: order lists its keys as inserted, levels     *)
(* maps each key to the slug's dict {level number -> stored parse}.        *)
(***************************************************************************)
Directory ==
    {
      \* Lvl 1 A<U+00A0>b.docx: slug a-b, level 1; a blank first paragraph
      [ filename |-> <<"L","v","l"," ","1"," ","A","U+00A0","b",".","d","o","c","x">>,
        doc |-> [ ok |-> TRUE, paragraphs |-> << <<" ","\r","U+2003">>, <<"H","1">>, <<"b","1">> >> ] ],
      \* Lvl 3 a  b _ Breaking News English.docx: slug a-b, level 3
      [ filename |-> <<"L","v","l"," ","3"," ","a"," "," ","b"," ","_"," ","B","r","e","a","k","i","n","g"," ","N","e","w","s"," ","E","n","g","l","i","s","h",".","d","o","c","x">>,
        doc |-> [ ok |-> TRUE, paragraphs |-> << <<"\n","\f","H","3","\r">>, <<"H","o","m","e","w","o","r","k",":">>, <<"A","n","s","w","e","r"," ","e","a","c","h"," ","q","u","e","s","t","i","o","n">>, <<"q","3">> >> ] ],
      \* Lvl 6 A-b.docx: slug a-b, level 6
      [ filename |-> <<"L","v","l"," ","6"," ","A","-","b",".","d","o","c","x">>,
        doc |-> [ ok |-> TRUE, paragraphs |-> << <<"H","6","\n","b","6">>, <<"H","o","m","e","w","o","r","k",":"," ","q","6"," ","F","r","e","e"," ","W","r","i","t","i","n","g"," ","w">> >> ] ],
      \* Lvl 1 a-b.docx: slug a-b, level 1 again
      [ filename |-> <<"L","v","l"," ","1"," ","a","-","b",".","d","o","c","x">>,
        doc |-> [ ok |-> TRUE, paragraphs |-> << <<"G","1">> >> ] ],
      \* Lvl 2 a b.docx: slug a-b, level 2
      [ filename |-> <<"L","v","l"," ","2"," ","a"," ","b",".","d","o","c","x">>,
        doc |-> [ ok |-> TRUE, paragraphs |-> << <<"H","2">> >> ] ],
      \* Lvl 3 c.docx: slug c; Document() raises
      [ filename |-> <<"L","v","l"," ","3"," ","c",".","d","o","c","x">>,
        doc |-> [ ok |-> FALSE, paragraphs |-> <<  >> ] ],
      \* Lvl 6 c!.docx: slug c, level 6
      [ filename |-> <<"L","v","l"," ","6"," ","c","!",".","d","o","c","x">>,
        doc |-> [ ok |-> TRUE, paragraphs |-> << <<"K","6">> >> ] ],
      \* Lvl 01<U+00A0>c.docx: slug c; only blank paragraphs
      [ filename |-> <<"L","v","l"," ","0","1","U+00A0","c",".","d","o","c","x">>,
        doc |-> [ ok |-> TRUE, paragraphs |-> << <<"\t","U+000B">>, <<" ","\n","U+0085">> >> ] ],
      \* Lvl 1 c.txt: not a .docx file
      [ filename |-> <<"L","v","l"," ","1"," ","c",".","t","x","t">>,
        doc |-> [ ok |-> TRUE, paragraphs |-> << <<"T","1">> >> ] ],
      \* notes.docx: no leading level token
      [ filename |-> <<"n","o","t","e","s",".","d","o","c","x">>,
        doc |-> [ ok |-> TRUE, paragraphs |-> << <<"N">> >> ] ],
      \* Lvl 2 d.docx: slug d, level 2 only
      [ filename |-> <<"L","v","l"," ","2"," ","d",".","d","o","c","x">>,
        doc |-> [ ok |-> TRUE, paragraphs |-> << <<"D","2">> >> ] ]
    }

\* the orders os.listdir may return the files of a directory in: any
Orderings(S) ==
    { f \in [1..Cardinality(S) -> S] :
        \A i, j \in 1..Cardinality(S) : i # j => f[i] # f[j] }

\* defaultdict(lambda: {})
EmptyArticles == [ order |-> << >>, levels |-> [ k \in {} |-> << >> ] ]

\* mutant: a slug stored again moves to the end of the dict
StoreLevel_move_to_end(arts, slug, level, entry) ==
    LET old == IF slug \in DOMAIN arts.levels
               THEN arts.levels[slug] ELSE [ k \in {} |-> << >> ]
        new == [ l \in (DOMAIN old) \cup {level} |->
                   IF l = level THEN entry ELSE old[l] ]
        rest == { i \in 1..Len(arts.order) : arts.order[i] # slug }
    IN  [ order |-> Append([ k \in 1..Cardinality(rest) |->
                               arts.order[Nth(rest, k)] ], slug),
          levels |-> [ k \in (DOMAIN arts.levels) \cup {slug} |->
                         IF k = slug THEN new ELSE arts.levels[k] ] ]

\* mutant: articles[slug] = {f'level_{level}': entry}, the slug's other
\* levels are dropped
StoreLevel_replace(arts, slug, level, entry) ==
    [ order |-> IF slug \in DOMAIN arts.levels
                THEN arts.order ELSE Append(arts.order, slug),
      levels |-> [ k \in (DOMAIN arts.levels) \cup {slug} |->
                     IF k = slug THEN [ l \in {level} |-> entry ]
                     ELSE arts.levels[k] ] ]

\* articles[slug][f'level_{level}'] = entry (line 164)
StoreLevel(arts, slug, level, entry) ==
    LET old == IF slug \in DOMAIN arts.levels
               THEN arts.levels[slug] ELSE [ k \in {} |-> << >> ]
        new == [ l \in (DOMAIN old) \cup {level} |->
                   IF l = level THEN entry ELSE old[l] ]
    IN  [ order |-> IF slug \in DOMAIN arts.levels
                    THEN arts.order ELSE Append(arts.order, slug),
          levels |-> [ k \in (DOMAIN arts.levels) \cup {slug} |->
                         IF k = slug THEN new ELSE arts.levels[k] ] ]

\* the dict stored at lines 164-171
LevelEntry(filename, text, level) ==
    LET parsed == parse_level_content(text, level)
    IN  [ headline |-> IF text # << >> THEN Strip(SplitLines(text)[1]) ELSE << >>,
          article_text |-> parsed[1],
          instruction |-> parsed[2],
          questions |-> parsed[3],
          writing_prompt |-> parsed[4],
          filename |-> filename ]

\* mutant: articles[slug] is read before the text is tested, which makes the
\* defaultdict insert an empty dict for the slug of a file without text
ScanStep_touch(arts, file) ==
    LET filename == file.filename
        level == LevelOf(filename)
        slug == parse_filename(filename)
        text == extract_text_from_docx(file.doc)
        touched == IF slug \in DOMAIN arts.levels THEN arts
                   ELSE [ order |-> Append(arts.order, slug),
                          levels |-> [ k \in (DOMAIN arts.levels) \cup {slug} |->
                                         IF k = slug THEN [ l \in {} |-> << >> ]
                                         ELSE arts.levels[k] ] ]
    IN  IF ~EndsWith(filename, DocxExt) THEN arts
        ELSE IF ~level_match(filename) THEN arts
        ELSE IF text = << >> THEN touched
        ELSE StoreLevel(arts, slug, level, LevelEntry(filename, text, level))

\* one iteration of the loop of lines 141-173
ScanStep(arts, file) ==
    LET filename == file.filename
        level == LevelOf(filename)
        slug == parse_filename(filename)
        text == extract_text_from_docx(file.doc)
    IN  IF ~EndsWith(filename, DocxExt) THEN arts
        ELSE IF ~level_match(filename) THEN arts
        ELSE IF text = << >> THEN arts
        ELSE StoreLevel(arts, slug, level, LevelEntry(filename, text, level))

(***************************************************************************)
(* main(): the records (lines 175-216).                                    *)
(***************************************************************************)
RecPrefix == << "r", "e", "c" >>

\* levels.get(key)[field] if the level is stored, else ''
FieldOr(levels, level, field) ==
    IF level \in DOMAIN levels THEN levels[level][field] ELSE << >>

\* mutant: level 1 before level 3
HeadlineOf_level1_first(levels) ==
    IF 1 \in DOMAIN levels THEN levels[1].headline
    ELSE IF 3 \in DOMAIN levels THEN levels[3].headline
    ELSE IF 6 \in DOMAIN levels THEN levels[6].headline
    ELSE << >>

\* the Headline of line 189
HeadlineOf(levels) ==
    IF 3 \in DOMAIN levels THEN levels[3].headline
    ELSE IF 1 \in DOMAIN levels THEN levels[1].headline
    ELSE IF 6 \in DOMAIN levels THEN levels[6].headline
    ELSE << >>

\* the 'fields' dict of lines 188-210
article_fields(slug, levels) ==
    (      "Headline" :> HeadlineOf(levels)
        @@ "Slug" :> slug
        @@ "Image URL" :> << >>
        @@ "Level 0 Text" :> << >>
        @@ "Level 0 Questions" :> << >>
        @@ "Level 1 Text" :> FieldOr(levels, 1, "article_text")
        @@ "Level 1 Questions" :> FieldOr(levels, 1, "questions")
        @@ "Level 1 Instruction" :> FieldOr(levels, 1, "instruction")
        @@ "Level 2 Text" :> << >>
        @@ "Level 2 Questions" :> << >>
        @@ "Level 3 Text" :> FieldOr(levels, 3, "article_text")
        @@ "Level 3 Questions" :> FieldOr(levels, 3, "questions")
        @@ "Level 3 Instruction" :> FieldOr(levels, 3, "instruction")
        @@ "Level 4 Text" :> << >>
        @@ "Level 4 Questions" :> << >>
        @@ "Level 5 Text" :> << >>
        @@ "Level 5 Questions" :> << >>
        @@ "Level 6 Text" :> FieldOr(levels, 6, "article_text")
        @@ "Level 6 Questions" :> FieldOr(levels, 6, "questions")
        @@ "Level 6 Instruction" :> FieldOr(levels, 6, "instruction")
        @@ "Level 6 Writing Prompt" :> FieldOr(levels, 6, "writing_prompt") )

\* mutant: the level-2 fields filled from a stored level-2 parse
article_data_level2(slug, levels, id) ==
    [ id |-> RecPrefix \o Format03d(id),
      fields |->    "Level 2 Text" :> FieldOr(levels, 2, "article_text")
                 @@ "Level 2 Questions" :> FieldOr(levels, 2, "questions")
                 @@ article_fields(slug, levels) ]

\* the dict built at lines 186-211
article_data(slug, levels, id) ==
    [ id |-> RecPrefix \o Format03d(id), fields |-> article_fields(slug, levels) ]

\* the loop of lines 141-173 over a whole listing, from the dict arts on
RECURSIVE ScanFrom(_, _)
ScanFrom(arts, files) ==
    IF files = << >> THEN arts
    ELSE ScanFrom(ScanStep(arts, Head(files)), Tail(files))

\* the loop of lines 179-216 over a whole dict: js_data
Records(arts) ==
    [ k \in 1..Len(arts.order) |->
        article_data(arts.order[k], arts.levels[arts.order[k]], k) ]

\* js_data of a run of main() over a listing
RunOf(files) == Records(ScanFrom(EmptyArticles, files))

(***************************************************************************)
(* The run of main() as a state machine.                                   *)
(***************************************************************************)
Init ==
    /\ \E S \in SUBSET Directory :
          /\ Cardinality(S) <= MaxFiles
          /\ listing \in Orderings(S)
    /\ pos = 1
    /\ articles = EmptyArticles
    /\ js_data = << >>
    /\ article_id = 0
    /\ pc = "scan"
    /\ arg = << >>
    /\ ret = << >>

\* the body of the for loop over os.listdir, for the next file
ScanFile ==
    /\ pc = "scan"
    /\ pos <= Len(listing)
    /\ articles' = ScanStep(articles, listing[pos])
    /\ pos' = pos + 1
    /\ UNCHANGED <<listing, js_data, article_id, pc, arg, ret>>

\* lines 176-177, once the listing is exhausted
StartRecords ==
    /\ pc = "scan"
    /\ pos > Len(listing)
    /\ js_data' = << >>
    /\ article_id' = 1
    /\ pc' = "emit"
    /\ UNCHANGED <<listing, pos, articles, arg, ret>>

\* the body of the for loop over articles.items(), for the next slug
AddArticle ==
    /\ pc = "emit"
    /\ article_id <= Len(articles.order)
    /\ LET slug == articles.order[article_id]
       IN  js_data' = Append(js_data,
                             article_data(slug, articles.levels[slug], article_id))
    /\ article_id' = article_id + 1
    /\ UNCHANGED <<listing, pos, articles, pc, arg, ret>>

\* lines 218-233: js_data is written out as it stands
WriteOutput ==
    /\ pc = "emit"
    /\ article_id > Len(articles.order)
    /\ pc' = "done"
    /\ UNCHANGED <<listing, pos, articles, js_data, article_id, arg, ret>>

Next == ScanFile \/ StartRecords \/ AddArticle \/ WriteOutput

Spec == Init /\ [][Next]_vars


(***************************************************************************)
(* Vocabulary of the properties of main().                                 *)
(***************************************************************************)
TextOf(file) == extract_text_from_docx(file.doc)

\* the file reaches the store of line 164
Stored(file) ==
    /\ EndsWith(file.filename, DocxExt)
    /\ level_match(file.filename)
    /\ TextOf(file) # << >>

\* a skippable file: no leading "Lvl <digits>", or an extraction that
\* fails or returns empty text
Skippable(file) == ~level_match(file.filename) \/ TextOf(file) = << >>

\* the files scanned so far
Scanned == SubSeq(listing, 1, pos - 1)

\* the indices of the stored files of a listing
StoredAt(files) == { i \in 1..Len(files) : Stored(files[i]) }

\* a listing without its skippable files
WithoutSkippable(files) ==
    LET keep == { i \in 1..Len(files) : ~Skippable(files[i]) }
    IN  [ k \in 1..Cardinality(keep) |-> files[Nth(keep, k)] ]

\* the slugs of the stored files of a listing, in the order each is first met
FirstSeen(files) ==
    LET first == { i \in StoredAt(files) :
                     \A j \in StoredAt(files) :
                        j < i => parse_filename(files[j].filename)
                                   # parse_filename(files[i].filename) }
    IN  [ k \in 1..Cardinality(first) |->
            parse_filename(files[Nth(first, k)].filename) ]

\* the index of the last stored file of a listing with this slug and level,
\* or 0
LastAt(files, slug, level) ==
    LET hits == { i \in StoredAt(files) :
                    /\ parse_filename(files[i].filename) = slug
                    /\ LevelOf(files[i].filename) = level }
    IN  IF hits = {} THEN 0 ELSE Max(hits)

\* 'rec' followed by k zero-padded to 3 digits
RecId(k) ==
    << "r", "e", "c" >>
    \o (IF k < 10 THEN << "0", "0" >> ELSE IF k < 100 THEN << "0" >> ELSE << >>)
    \o ToDigits(k)

\* the first non-blank line of a text, trimmed, or the empty string
FirstNonBlankLine(text) ==
    LET lines == SplitLines(text)
        nonblank == { i \in 1..Len(lines) : Strip(lines[i]) # << >> }
    IN  IF nonblank = {} THEN << >> ELSE Strip(lines[Min(nonblank)])

TextField ==
    [ l \in 0..6 |->
        CASE l = 0 -> "Level 0 Text" [] l = 1 -> "Level 1 Text"
          [] l = 2 -> "Level 2 Text" [] l = 3 -> "Level 3 Text"
          [] l = 4 -> "Level 4 Text" [] l = 5 -> "Level 5 Text"
          [] l = 6 -> "Level 6 Text" ]

QuestionsField ==
    [ l \in 0..6 |->
        CASE l = 0 -> "Level 0 Questions" [] l = 1 -> "Level 1 Questions"
          [] l = 2 -> "Level 2 Questions" [] l = 3 -> "Level 3 Questions"
          [] l = 4 -> "Level 4 Questions" [] l = 5 -> "Level 5 Questions"
          [] l = 6 -> "Level 6 Questions" ]

InstructionField ==
    [ l \in {1, 3, 6} |->
        CASE l = 1 -> "Level 1 Instruction" [] l = 3 -> "Level 3 Instruction"
          [] l = 6 -> "Level 6 Instruction" ]

FixedFields ==
    { "Headline", "Slug", "Level 6 Writing Prompt" }
    \cup { TextField[l] : l \in 0..6 }
    \cup { QuestionsField[l] : l \in 0..6 }
    \cup { InstructionField[l] : l \in {1, 3, 6} }

\* the fields of a record hold the parse of a file as the content of its level
HoldsContent(fields, file) ==
    LET level == LevelOf(file.filename)
        parsed == parse_level_content(TextOf(file), level)
    IN  /\ level \in 0..6
        /\ fields[TextField[level]] = parsed[1]
        /\ fields[QuestionsField[level]] = parsed[3]
        /\ level \in {1, 3, 6} => fields[InstructionField[level]] = parsed[2]
        /\ level = 6 => fields["Level 6 Writing Prompt"] = parsed[4]

\* the record emitted for a slug, when there is exactly one
RecordsOf(slug) == { k \in 1..Len(js_data) : js_data[k].fields["Slug"] = slug }

\* two stored files of the listing with the same slug and different levels,
\* each the last of its slug and level
MergedPairs ==
    { p \in StoredAt(listing) \X StoredAt(listing) :
        /\ parse_filename(listing[p[1]].filename)
             = parse_filename(listing[p[2]].filename)
        /\ LevelOf(listing[p[1]].filename) # LevelOf(listing[p[2]].filename)
        /\ \A q \in {p[1], p[2]} :
              LastAt(listing, parse_filename(listing[q].filename),
                     LevelOf(listing[q].filename)) = q }

(***************************************************************************)
(* Properties of main().                                                   *)
(***************************************************************************)

\* C1: ids follow slug first-encounter order: while scanning, the keys of
\* the dict are the slugs of the stored files in the order each was first
\* met; the k-th record emitted has id 'rec' + k padded to 3 digits and the
\* k-th such slug; and the finished output has one record per such slug.
C1_IdsInFirstEncounterOrder ==
    /\ articles.order = FirstSeen(Scanned)
    /\ \A k \in 1..Len(js_data) :
          /\ js_data[k].id = RecId(k)
          /\ js_data[k].fields["Slug"] = FirstSeen(listing)[k]
    /\ pc = "done" => Len(js_data) = Len(FirstSeen(listing))

\* C1 witness: a finished run where a slug is met, then another slug, then
\* the first slug again, and two records came out.
C1_Witness ==
    /\ pc = "done"
    /\ Len(listing) = 3
    /\ StoredAt(listing) = {1, 2, 3}
    /\ parse_filename(listing[1].filename) = parse_filename(listing[3].filename)
    /\ parse_filename(listing[1].filename) # parse_filename(listing[2].filename)
    /\ Len(js_data) = 2

\* C2 (as stated): the number of records is the number of distinct slugs
\* stored, and two files with one slug and different levels give one record
\* that holds the content of both levels.
C2_OneRecordHoldingBothLevels ==
    pc = "done" =>
       /\ Len(js_data)
            = Cardinality({ parse_filename(listing[i].filename) :
                              i \in StoredAt(listing) })
       /\ \A p \in MergedPairs :
             LET recs == RecordsOf(parse_filename(listing[p[1]].filename))
             IN  /\ Cardinality(recs) = 1
                 /\ \A k \in recs :
                       /\ HoldsContent(js_data[k].fields, listing[p[1]])
                       /\ HoldsContent(js_data[k].fields, listing[p[2]])

\* C2 (amended): the number of records is the number of distinct slugs
\* stored, and two files with one slug and different levels give one record,
\* which holds the content of each of the two levels that is 1, 3 or 6.
C2_OneRecordPerSlug ==
    pc = "done" =>
       /\ Len(js_data)
            = Cardinality({ parse_filename(listing[i].filename) :
                              i \in StoredAt(listing) })
       /\ \A p \in MergedPairs :
             LET recs == RecordsOf(parse_filename(listing[p[1]].filename))
             IN  /\ Cardinality(recs) = 1
                 /\ \A k \in recs : \A q \in {p[1], p[2]} :
                       LevelOf(listing[q].filename) \in {1, 3, 6}
                          => HoldsContent(js_data[k].fields, listing[q])

\* C2 witness: a finished run over three stored files of one slug at three
\* levels, one of them outside 1, 3, 6, that gave a single record.
C2_Witness ==
    /\ pc = "done"
    /\ Len(js_data) = 1
    /\ StoredAt(listing) = {1, 2, 3}
    /\ \E p \in MergedPairs :
          /\ LevelOf(listing[p[1]].filename) = 1
          /\ LevelOf(listing[p[2]].filename) = 3
    /\ \E i \in 1..3 : LevelOf(listing[i].filename) = 2

\* C3: skippable files leave no trace: the dict is at every moment the one
\* the scan builds from the files scanned so far with the skippable ones
\* removed, and the records are those of the run over the listing without
\* its skippable files.
C3_SkippedFilesLeaveNoTrace ==
    /\ articles = ScanFrom(EmptyArticles, WithoutSkippable(Scanned))
    /\ pc \in {"emit", "done"} =>
          /\ Len(js_data) <= Len(RunOf(WithoutSkippable(listing)))
          /\ js_data = SubSeq(RunOf(WithoutSkippable(listing)), 1, Len(js_data))
    /\ pc = "done" => js_data = RunOf(WithoutSkippable(listing))

\* C3 witness: a finished run that met a file without a level token, then a
\* file whose extraction gave no text, then a stored file, and emitted the
\* stored file's record.
C3_Witness ==
    /\ pc = "done"
    /\ Len(listing) = 3
    /\ ~level_match(listing[1].filename)
    /\ level_match(listing[2].filename) /\ TextOf(listing[2]) = << >>
    /\ Stored(listing[3])
    /\ Len(js_data) = 1

\* C4: the Headline of every record is that of the slug's level-3 file if
\* one was stored, else of its level-1 file, else of its level-6 file, else
\* empty, the headline of a file being the first line of its text, trimmed
\* (the last stored file counts when a slug and level came twice).
C4_HeadlinePriority ==
    \A k \in 1..Len(js_data) :
       LET slug == js_data[k].fields["Slug"]
           from(level) == Strip(SplitLines(
                              TextOf(listing[LastAt(listing, slug, level)]))[1])
       IN  js_data[k].fields["Headline"] =
              IF LastAt(listing, slug, 3) # 0 THEN from(3)
              ELSE IF LastAt(listing, slug, 1) # 0 THEN from(1)
              ELSE IF LastAt(listing, slug, 6) # 0 THEN from(6)
              ELSE << >>

\* C4 witness: a record of a slug whose level-1 file came before its level-3
\* file, the two headlines differing, and a level-2 file as well.
C4_Witness ==
    /\ pc = "done"
    /\ Len(js_data) = 1
    /\ \E i, j, l \in StoredAt(listing) :
          /\ i < j
          /\ LevelOf(listing[i].filename) = 1
          /\ LevelOf(listing[j].filename) = 3
          /\ LevelOf(listing[l].filename) = 2
          /\ FirstNonBlankLine(TextOf(listing[i]))
               # FirstNonBlankLine(TextOf(listing[j]))
          /\ js_data[1].fields["Headline"] = FirstNonBlankLine(TextOf(listing[j]))

\* C5 (as stated): the records of a finished run are those of the run over
\* any other order in which the lister may return the same files.
C5_SameRecordsWhateverTheOrder ==
    pc = "done" =>
       \A other \in Orderings({ listing[i] : i \in 1..Len(listing) }) :
          RunOf(other) = js_data

\* C6: every record has the full field set; the fields of levels 0, 2, 4
\* and 5 are empty, and so are those of a level 1, 3 or 6 for which the slug
\* has no stored file.
C6_FixedSchema ==
    \A k \in 1..Len(js_data) :
       LET fields == js_data[k].fields
           slug == fields["Slug"]
       IN  /\ FixedFields \subseteq DOMAIN fields
           /\ \A l \in {0, 2, 4, 5} :
                 fields[TextField[l]] = << >> /\ fields[QuestionsField[l]] = << >>
           /\ \A l \in {1, 3, 6} :
                 LastAt(listing, slug, l) = 0 =>
                    /\ fields[TextField[l]] = << >>
                    /\ fields[QuestionsField[l]] = << >>
                    /\ fields[InstructionField[l]] = << >>
                    /\ l = 6 => fields["Level 6 Writing Prompt"] = << >>

\* C6 witness: a record of a slug with a stored level-2 file and a stored
\* level-1 file, and no level-3 or level-6 file.
C6_Witness ==
    /\ pc = "done"
    /\ \E k \in 1..Len(js_data) :
          LET slug == js_data[k].fields["Slug"]
          IN  /\ LastAt(listing, slug, 2) # 0
              /\ LastAt(listing, slug, 1) # 0
              /\ LastAt(listing, slug, 3) = 0
              /\ LastAt(listing, slug, 6) = 0
              /\ js_data[k].fields["Level 1 Text"] # << >>

\* C7: the headline stored with every parse is the first non-blank line,
\* trimmed, of the text extracted from the file it came from.
C7_HeadlineIsFirstNonBlankLine ==
    \A slug \in DOMAIN articles.levels :
       \A level \in DOMAIN articles.levels[slug] :
          LET entry == articles.levels[slug][level]
          IN  \A i \in 1..Len(listing) :
                 listing[i].filename = entry.filename =>
                    entry.headline = FirstNonBlankLine(TextOf(listing[i]))

\* C7 witness: parses stored for a document whose first paragraph is blank
\* and for a document with a padded first paragraph and a homework section.
C7_Witness ==
    \E i, j \in StoredAt(Scanned) :
       /\ Strip(listing[i].doc.paragraphs[1]) = << >>
       /\ listing[j].doc.paragraphs[1] # Strip(listing[j].doc.paragraphs[1])
       /\ Contains(TextOf(listing[j]), HomeworkToken)
       /\ \E slug \in DOMAIN articles.levels :
             \E level \in DOMAIN articles.levels[slug] :
                /\ articles.levels[slug][level].filename = listing[j].filename
                /\ articles.levels[slug][level].headline # << >>

(***************************************************************************)
(* The slug normalisation on its own: Slugify applied to a name, then to   *)
(* its own result.  ret collects the results.                              *)
(***************************************************************************)
SlugAlphabet == { "a", "B", "1", " ", "\r", "U+00A0", "-", "_" }

SlugInputs == UNION { [1..n -> SlugAlphabet] : n \in 0..MaxLen }

InitSlug ==
    /\ arg \in SlugInputs
    /\ ret = << >>
    /\ pc = "slug"
    /\ listing = << >>
    /\ pos = 1
    /\ articles = EmptyArticles
    /\ js_data = << >>
    /\ article_id = 0

SlugifyName ==
    /\ pc = "slug"
    /\ ret' = << Slugify(arg) >>
    /\ pc' = "slugged"
    /\ UNCHANGED <<listing, pos, articles, js_data, article_id, arg>>

SlugifyAgain ==
    /\ pc = "slugged"
    /\ ret' = Append(ret, Slugify(ret[1]))
    /\ pc' = "reslugged"
    /\ UNCHANGED <<listing, pos, articles, js_data, article_id, arg>>

NextSlug == SlugifyName \/ SlugifyAgain

SpecSlug == InitSlug /\ [][NextSlug]_vars

\* C8: slugifying a slug returns it unchanged.
C8_SlugifyIdempotent == pc = "reslugged" => ret[2] = ret[1]

\* C8 witness: a name with an upper-case letter and a run of two whitespace
\* characters between two kept characters, slugified twice.
C8_Witness ==
    /\ pc = "reslugged"
    /\ \E i \in 1..(Len(arg) - 1) : arg[i] \in SpaceSet /\ arg[i + 1] \in SpaceSet
    /\ \E i \in 1..Len(arg) : arg[i] = "B"
    /\ \E i \in 1..Len(ret[1]) : ret[1][i] = "-"
    /\ ret[1] # arg

(***************************************************************************)
(* The segmenter on its own: a text made of up to MaxSegs pieces is parsed *)
(* as a level-3 or level-6 document, or handed as a homework block to      *)
(* extract_instruction_and_questions.                                      *)
(***************************************************************************)
Palette ==
    {
      <<"H","o","m","e","w","o","r","k",":">>,
      <<"A","c","a","d","e","m","i","c"," ","W","r","i","t","i","n","g"," ">>,
      <<"f","r","e","e"," ","w","r","i","t","i","n","g">>,
      <<"A","n","s","w","e","r"," ","e","a","c","h"," ","q","u","e","s","t","i","o","n","\n">>,
      <<"w","r","i","t","e"," ","a"," ","f","u","l","l"," ","s","e","n","t","e","n","c","e">>,
      <<"\n">>,
      <<"U+0130">>,
      <<"q"," ","\r">>
    }

RECURSIVE Concat(_)
Concat(pieces) ==
    IF pieces = << >> THEN << >> ELSE Head(pieces) \o Concat(Tail(pieces))

SegInputs ==
    { Concat(pieces) : pieces \in UNION { [1..n -> Palette] : n \in 0..MaxSegs } }

InitSeg ==
    /\ arg \in SegInputs
    /\ ret = << >>
    /\ pc = "seg"
    /\ listing = << >>
    /\ pos = 1
    /\ articles = EmptyArticles
    /\ js_data = << >>
    /\ article_id = 0

ParseLevelContent ==
    /\ pc = "seg"
    /\ \E level \in {3, 6} :
          ret' = [ level |-> level, parsed |-> parse_level_content(arg, level) ]
    /\ pc' = "parsed"
    /\ UNCHANGED <<listing, pos, articles, js_data, article_id, arg>>

ExtractInstructionAndQuestions ==
    /\ pc = "seg"
    /\ ret' = extract_instruction_and_questions(arg)
    /\ pc' = "extracted"
    /\ UNCHANGED <<listing, pos, articles, js_data, article_id, arg>>

NextSeg == ParseLevelContent \/ ExtractInstructionAndQuestions

SpecSeg == InitSeg /\ [][NextSeg]_vars

\* the 0-based positions of a text where a piece begins that equals the
\* marker once both are lowered
OccurrencesCI(text, marker) ==
    { p \in 0..Len(text) :
        \E e \in p..Len(text) : Lower(Slice(text, p, e)) = Lower(marker) }

\* the numbers of the markers of a list that occur in a text
Present(text, markers) ==
    { m \in 1..Len(markers) : OccurrencesCI(text, markers[m]) # {} }

\* the homework block of a text that holds "Homework:"
HomeworkBlock(text) ==
    Strip(SliceFrom(text, Find(text, HomeworkToken) + Len(HomeworkToken)))

\* the block holds a lower-priority marker that begins before the first
\* occurrence of a higher-priority marker
LowerPriorityFirst(block) ==
    \E hi, lo \in Present(block, writing_prompt_markers) :
       /\ hi < lo
       /\ Lower(writing_prompt_markers[hi]) # Lower(writing_prompt_markers[lo])
       /\ Min(OccurrencesCI(block, writing_prompt_markers[lo]))
            < Min(OccurrencesCI(block, writing_prompt_markers[hi]))

\* C9 (as stated): for a level-6 text whose homework block holds a
\* lower-priority marker before a higher-priority one, the split point is
\* the first occurrence of the highest-priority marker present: the writing
\* prompt is the trimmed block from there on, and instruction and questions
\* come from the trimmed block before it.
C9_HigherPriorityMarkerSplits ==
    (/\ pc = "parsed"
     /\ ret.level = 6
     /\ Contains(arg, HomeworkToken)
     /\ LowerPriorityFirst(HomeworkBlock(arg)))
    => LET block == HomeworkBlock(arg)
           best == Min(Present(block, writing_prompt_markers))
           p == Min(OccurrencesCI(block, writing_prompt_markers[best]))
           iq == extract_instruction_and_questions(Strip(Slice(block, 0, p)))
       IN  /\ ret.parsed[4] = Strip(SliceFrom(block, p))
           /\ ret.parsed[2] = iq[1]
           /\ ret.parsed[3] = iq[2]

\* the lines of a block that contain a marker once both are lowered
LinesWith(block, marker) ==
    { i \in 1..Len(SplitLines(block)) :
        Contains(Lower(SplitLines(block)[i]), Lower(marker)) }

\* C9 holds of every text of the model in which no U+0130 occurs, the one
\* character whose lowering changes the length of the text.
C9_HoldsWhenLoweringKeepsLength ==
    (\A i \in 1..Len(arg) : arg[i] # "U+0130") => C9_HigherPriorityMarkerSplits

\* C10: the first instruction marker of the list that some line contains
\* is selected, and its first such line i: instruction is line i trimmed,
\* questions the trimmed join of the lines after i; with no marker in any
\* line, instruction is empty and questions is the block unchanged.
C10_InstructionSplit ==
    pc = "extracted" =>
       LET lines == SplitLines(arg)
           found == { m \in 1..Len(instruction_markers) :
                        LinesWith(arg, instruction_markers[m]) # {} }
       IN  IF found = {} THEN ret = << << >>, arg >>
           ELSE LET i == Min(LinesWith(arg, instruction_markers[Min(found)]))
                IN  ret = << Strip(lines[i]),
                             Strip(JoinLines(SubSeq(lines, i + 1, Len(lines)))) >>

\* C10 witness: a block whose first line holds a lower-priority marker and
\* whose second line holds a higher-priority one, with a line after it.
C10_Witness ==
    /\ pc = "extracted"
    /\ Len(SplitLines(arg)) = 3
    /\ LinesWith(arg, instruction_markers[3]) = {1}
    /\ LinesWith(arg, instruction_markers[1]) = {2}
    /\ ret[1] = SplitLines(arg)[2]
    /\ ret[2] = Strip(SplitLines(arg)[3])
    /\ ret[2] # << >>

====
